---- MODULE Spec2Model ----
(***************************************************************************)
(* Model of DjApp/file_management.py: the background BPM analysis worker   *)
(* (BPMAnalyzerThread) and the browsing session that owns it              *)
(* (FileBrowserDialog).  The control thread runs the dialog's handlers     *)
(* (set_directory, populate_file_list, closeEvent and the slots connected  *)
(* to the worker's signals); each worker thread runs                      *)
(* BPMAnalyzerThread.run.  Signals emitted by a worker are queued to the   *)
(* control thread's event loop (the emitter runs in another thread than    *)
(* the receiving dialog lives in) and delivered in emission order.         *)
(***************************************************************************)
EXTENDS Integers, Sequences, FiniteSets, TLC

(* ------------------------------ bounds -------------------------------- *)
\* number of file names a session may hand to its jobs, all jobs together
MaxFiles == 4
\* number of directory scans (populate_file_list runs) in one session
MaxScans == 2

(* ------------------------ external collaborators ---------------------- *)
\* directories a caller may pass: two audio directories that share the file
\* name "a", a directory without audio files, and a path that is no directory
ValidDirs == {"d1", "d2", "d0"}
AllDirs == ValidDirs \cup {"nodir"}
NoDirectory == "None"

\* os.path.isdir
IsDir(d) == d \in ValidDirs

\* os.listdir filtered on the audio extensions, in listing order
AudioFiles(d) ==
    CASE d = "d1" -> <<"a", "b">>
      [] d = "d2" -> <<"a">>
      [] OTHER -> <<>>

Files == {"a", "b"}

\* os.path.join(directory, file)
Join(d, f) == <<d, f>>

\* what the persistent tier answers for one path: there is no cache_manager,
\* get_bpm_data returns nothing, it returns a record whose first field is
\* None, or it returns a record whose first field is a number
StoreReturns ==
    {[kind |-> "unavailable", bpm |-> 0], [kind |-> "none", bpm |-> 0],
     [kind |-> "nullbpm", bpm |-> 0]}
        \cup [kind : {"bpm"}, bpm : {0, 128}]

NoOutcome == [kind |-> "nocall", bpm |-> 0, warm |-> FALSE]

\* the file names the persistent tier may hold an entry for
StoredFiles == {"a"}

\* what one iteration's calls into the analyzer may do: analyze_file raises,
\* or returns a bpm; for a bpm > 0 the beat pre-warm returns (warm) or raises
AnalyzerOutcomes ==
    {[kind |-> "raise", bpm |-> 0, warm |-> FALSE],
     [kind |-> "bpm", bpm |-> 0, warm |-> FALSE],
     [kind |-> "bpm", bpm |-> 120, warm |-> TRUE],
     [kind |-> "bpm", bpm |-> 120, warm |-> FALSE]}

(* ------------------------------- state -------------------------------- *)
VARIABLES
    directory,        \* FileBrowserDialog.directory
    audio_analyzer,   \* whether the dialog was given an analyzer
    track_items,      \* keys of FileBrowserDialog.track_items
    bpm_cache,        \* FileBrowserDialog.bpm_cache: path -> bpm
    analyzer_thread,  \* FileBrowserDialog.analyzer_thread: thread id, 0 = None
    thr,              \* the BPMAnalyzerThread objects created so far
    nthreads,         \* how many were created
    events,           \* queued signal deliveries to the control thread
    ctrl,             \* where the control thread is
    scans             \* populate_file_list runs so far

vars == <<directory, audio_analyzer, track_items, bpm_cache,
          analyzer_thread, thr, nthreads, events, ctrl, scans>>

\* every job is created by one run of populate_file_list
Threads == 1..MaxScans

\* a thread object that does not exist yet
NoThread ==
    [directory |-> NoDirectory, file_list |-> <<>>, running |-> FALSE,
     pc |-> "none", idx |-> 0, cur |-> 0,
     live |-> <<>>, initLen |-> 0, seen |-> 0, exhausted |-> FALSE,
     log |-> <<>>, calls |-> <<>>, last |-> NoOutcome, listed |-> <<>>]

\* BPMAnalyzerThread.__init__ followed by start(): the worker is at the head
\* of its loop.  live, initLen, seen, exhausted, log and calls are history:
\*   live[i]   the i-th queue entry was put in the queue before the loop ended
\*   seen      the queue position at which the worker read running = False
\*   exhausted the iterator ran off the end of the queue
\*   log       the signals this job emitted, in emission order
\*   calls     the analyze_file calls this job made, in call order
\*   last      what the analyzer did in the iteration that has just ended,
\*             until the loop takes its next step
\*   listed[i] the directory whose listing the i-th queue entry came from
NewThread(dir, files) ==
    [directory |-> dir, file_list |-> files, running |-> TRUE,
     pc |-> "next", idx |-> 0, cur |-> 0,
     live |-> [i \in 1..Len(files) |-> TRUE], initLen |-> Len(files),
     seen |-> 0, exhausted |-> FALSE,
     log |-> <<>>, calls |-> <<>>, last |-> NoOutcome,
     listed |-> [i \in 1..Len(files) |-> dir]]

\* QThread.isRunning: from start() until run() has returned
IsRunning(T) == T.pc \in {"next", "analyze", "emit_done"}

(* ------------------------------ the cache ----------------------------- *)
\* dict assignment  cache[p] = v
Put(cache, p, v) ==
    [q \in (DOMAIN cache) \cup {p} |-> IF q = p THEN v ELSE cache[q]]

\* dict.get(p, default)
Get(cache, p, default) == IF p \in DOMAIN cache THEN cache[p] ELSE default

EmptyCache == [q \in {} |-> 0]

(* ------------------------- BPMAnalyzerThread -------------------------- *)
\* HasNext, were the loop to iterate over a copy of the list taken at start
HasNextOfSnapshot(T) == T.idx < T.initLen

\* the for loop's iterator over self.file_list: a list iterator keeps an
\* index and compares it with the list's current length at every step, so
\* entries appended while the loop runs are reached
HasNext(T) == T.idx < Len(T.file_list)

\* NextItem, were the worker to take its files from the tail of the queue
NextItemFromTail(T) == Len(T.file_list) - T.idx

\* the queue position the iterator hands out next
NextItem(T) == T.idx + 1

\* AfterRunningCheck, were the flag read and not acted on
AfterRunningCheckIgnored(running) == "analyze"

\* AfterRunningCheck, were a cleared flag to park the worker in its loop
AfterRunningCheckBlocking(running) == IF running THEN "analyze" ELSE "blocked"

\* line 39-40: where the iteration goes after reading self.running
AfterRunningCheck(running) == IF running THEN "analyze" ELSE "emit_done"

\* the head of one iteration (lines 38-40), or the end of the loop
WorkerNext(t) ==
    LET T == thr[t] IN
    /\ T.pc = "next"
    /\ IF HasNext(T)
         THEN LET pos == NextItem(T) IN
              thr' = [thr EXCEPT ![t] =
                        [T EXCEPT !.idx = T.idx + 1,
                                  !.cur = pos,
                                  !.seen = IF T.running THEN 0 ELSE pos,
                                  !.last = NoOutcome,
                                  !.pc = AfterRunningCheck(T.running)]]
         ELSE thr' = [thr EXCEPT ![t] =
                        [T EXCEPT !.exhausted = TRUE, !.last = NoOutcome,
                                  !.pc = "emit_done"]]
    /\ UNCHANGED <<directory, audio_analyzer, track_items,
                   bpm_cache, analyzer_thread, nthreads, events, ctrl, scans>>

\* IterationSignals, were line 48 not to test the bpm
IterationSignalsUnguarded(t, pos, file, out) ==
    IF out.kind = "bpm"
      THEN <<[kind |-> "bpm_analyzed", t |-> t, pos |-> pos,
              file |-> file, bpm |-> out.bpm]>>
      ELSE <<>>

\* IterationSignals, were a failure of the beat pre-warm to end the iteration
IterationSignalsNeedingWarm(t, pos, file, out) ==
    IF out.kind = "bpm" /\ out.bpm > 0 /\ out.warm
      THEN <<[kind |-> "bpm_analyzed", t |-> t, pos |-> pos,
              file |-> file, bpm |-> out.bpm]>>
      ELSE <<>>

\* lines 48-58: the signals one iteration emits for the analyzer's outcome
IterationSignals(t, pos, file, out) ==
    IF out.kind = "bpm" /\ out.bpm > 0
      THEN <<[kind |-> "bpm_analyzed", t |-> t, pos |-> pos,
              file |-> file, bpm |-> out.bpm]>>
      ELSE <<>>

\* AfterIteration, were a failure of analyze_file to leave run()
AfterIterationEscaping(out) == IF out.kind = "raise" THEN "finished" ELSE "next"

\* lines 42-61: where the worker is after the body of one iteration; both
\* except clauses swallow the failure and the loop goes on
AfterIteration(out) == "next"

\* the body of one iteration (lines 42-61)
WorkerAnalyze(t) ==
    LET T == thr[t] IN
    /\ T.pc = "analyze"
    /\ \E out \in AnalyzerOutcomes :
         LET file == T.file_list[T.cur]
             file_path == Join(T.directory, file)
             sig == IterationSignals(t, T.cur, file, out)
         IN /\ thr' = [thr EXCEPT ![t] =
                         [T EXCEPT !.calls = Append(T.calls,
                                        [pos |-> T.cur, path |-> file_path]),
                                   !.last = out,
                                   !.log = T.log \o sig,
                                   !.pc = AfterIteration(out)]]
            /\ events' = events \o sig
    /\ UNCHANGED <<directory, audio_analyzer, track_items,
                   bpm_cache, analyzer_thread, nthreads, ctrl, scans>>

\* CompletionSignals, were the emit after the loop missing
CompletionSignalsMissing(t) == <<>>

\* line 64: what run() emits once the loop is over
CompletionSignals(t) ==
    <<[kind |-> "analysis_completed", t |-> t, pos |-> 0,
       file |-> "", bpm |-> 0]>>

\* line 64 and the return of run()
WorkerFinish(t) ==
    LET T == thr[t] IN
    /\ T.pc = "emit_done"
    /\ thr' = [thr EXCEPT ![t] =
                 [T EXCEPT !.log = T.log \o CompletionSignals(t),
                           !.pc = "finished"]]
    /\ events' = events \o CompletionSignals(t)
    /\ UNCHANGED <<directory, audio_analyzer, track_items,
                   bpm_cache, analyzer_thread, nthreads, ctrl, scans>>

\* BPMAnalyzerThread.stop
Stop(T) == [T EXCEPT !.running = FALSE]

\* BPMAnalyzerThread.add_files: list.extend; an entry is live when it joins
\* the queue while the loop is still iterating
AddFiles(T, new_files) ==
    [T EXCEPT !.file_list = T.file_list \o new_files,
              !.live = T.live \o [i \in 1..Len(new_files) |->
                                     T.pc \in {"next", "analyze"}]]

(* -------------------------- FileBrowserDialog ------------------------- *)
\* lines 223-225: there is a cache manager and it has a usable entry
PersistentHit(cached_data) == cached_data.kind = "bpm"

\* PromoteToMemory, were the persistent entry not copied to the memory tier
PromoteToMemoryNever(cache, full_path, cached_data) == cache

\* lines 223-229: the in-memory tier after the persistent tier was consulted
\* for one path
PromoteToMemory(cache, full_path, cached_data) ==
    IF PersistentHit(cached_data)
      THEN Put(cache, full_path, cached_data.bpm)
      ELSE cache

\* LookupBpm, were the memory tier not consulted after a persistent miss
LookupBpmPersistentOnly(cache, full_path, cached_data) ==
    IF PersistentHit(cached_data) THEN cached_data.bpm ELSE 0

\* lines 220-235: cached_bpm, the result of the two-tier lookup of one path
LookupBpm(cache, full_path, cached_data) ==
    LET bpm1 == IF PersistentHit(cached_data) THEN cached_data.bpm ELSE 0
    IN IF bpm1 = 0
         THEN Get(PromoteToMemory(cache, full_path, cached_data), full_path, 0)
         ELSE bpm1

\* lines 218-242: the scan of the listing, file by file
RECURSIVE ScanFrom(_, _, _, _, _)
ScanFrom(dir, files, ret, i, acc) ==
    IF i > Len(files) THEN acc
    ELSE LET file == files[i]
             full_path == Join(dir, file)
             cached_data == ret[file]
             cache1 == PromoteToMemory(acc.cache, full_path, cached_data)
             cached_bpm == LookupBpm(acc.cache, full_path, cached_data)
         IN ScanFrom(dir, files, ret, i + 1,
                [cache |-> cache1,
                 todo |-> IF cached_bpm > 0 THEN acc.todo
                          ELSE Append(acc.todo, file),
                 items |-> acc.items \cup {file}])

\* the file names handed to the jobs so far
RECURSIVE Enqueued(_)
Enqueued(n) == IF n = 0 THEN 0 ELSE Len(thr[n].file_list) + Enqueued(n - 1)

\* NeedNewThread, were a job created on every scan
NeedNewThreadAlways(at, T) == TRUE

\* line 258: a new analyzer thread is created
NeedNewThread(at, T) == at = 0 \/ ~IsRunning(T)

\* lines 255-268: start a job for the files to analyze, or append them to
\* the running one
StartOrAppend(dir, files_to_analyze) ==
    IF files_to_analyze # <<>> /\ audio_analyzer
      THEN /\ Enqueued(nthreads) + Len(files_to_analyze) <= MaxFiles
           /\ IF NeedNewThread(analyzer_thread,
                               IF analyzer_thread = 0 THEN NoThread
                               ELSE thr[analyzer_thread])
                THEN /\ nthreads' = nthreads + 1
                     /\ analyzer_thread' = nthreads + 1
                     /\ thr' = [thr EXCEPT ![nthreads + 1] =
                                   NewThread(dir, files_to_analyze)]
                ELSE /\ thr' = [thr EXCEPT ![analyzer_thread] =
                                   [AddFiles(@, files_to_analyze) EXCEPT
                                      !.listed = @ \o
                                         [i \in 1..Len(files_to_analyze)
                                            |-> dir]]]
                     /\ UNCHANGED <<nthreads, analyzer_thread>>
      ELSE UNCHANGED <<thr, nthreads, analyzer_thread>>

\* FileBrowserDialog.populate_file_list, for self.directory = dir and the
\* answers ret of the persistent store
PopulateFileList(dir, ret) ==
    /\ scans < MaxScans
    /\ scans' = scans + 1
    /\ IF dir = NoDirectory \/ ~IsDir(dir) \/ AudioFiles(dir) = <<>>
         THEN /\ track_items' = {}
              /\ UNCHANGED <<bpm_cache, thr, nthreads, analyzer_thread>>
         ELSE LET r == ScanFrom(dir, AudioFiles(dir), ret, 1,
                          [cache |-> bpm_cache, todo |-> <<>>, items |-> {}])
              IN /\ track_items' = r.items
                 /\ bpm_cache' = r.cache
                 /\ StartOrAppend(dir, r.todo)

\* the answers the persistent tier may give for a path of file name f
AnswersFor(f) ==
    IF f \in StoredFiles THEN StoreReturns
    ELSE {[kind |-> "none", bpm |-> 0]}

\* the answers the persistent tier gives during one scan of directory dir
StoreAnswers(dir) ==
    {ret \in [{AudioFiles(dir)[i] : i \in 1..Len(AudioFiles(dir))}
                 -> StoreReturns] :
        \A f \in DOMAIN ret : ret[f] \in AnswersFor(f)}

\* lines 113-117: the end of FileBrowserDialog.__init__
Construct ==
    /\ ctrl = "ctor"
    /\ ctrl' = "idle"
    /\ IF directory # NoDirectory /\ IsDir(directory)
         THEN \E ret \in StoreAnswers(directory) : PopulateFileList(directory, ret)
         ELSE UNCHANGED <<track_items, bpm_cache, thr, nthreads,
                          analyzer_thread, scans>>
    /\ UNCHANGED <<directory, audio_analyzer, events>>

\* FileBrowserDialog.set_directory
SetDirectory(d) ==
    /\ ctrl = "idle"
    /\ IF IsDir(d)
         THEN /\ directory' = d
              /\ \E ret \in StoreAnswers(d) : PopulateFileList(d, ret)
         ELSE /\ directory' = NoDirectory
              /\ UNCHANGED <<track_items, bpm_cache, thr, nthreads,
                             analyzer_thread, scans>>
    /\ UNCHANGED <<audio_analyzer, events, ctrl>>

\* UpdateTrackBpm, were an entry the path already has kept
UpdateTrackBpmKeepingOld(cache, file, bpm) ==
    IF /\ file \in track_items /\ bpm > 0 /\ directory # NoDirectory
       /\ Join(directory, file) \notin DOMAIN cache
      THEN Put(cache, Join(directory, file), bpm)
      ELSE cache

\* FileBrowserDialog.update_track_bpm; with self.directory None the join
\* raises and the slot ends without a write
UpdateTrackBpm(cache, file, bpm) ==
    IF file \in track_items /\ bpm > 0 /\ directory # NoDirectory
      THEN Put(cache, Join(directory, file), bpm)
      ELSE cache

\* the control thread's event loop delivers the oldest queued signal to its
\* slot: update_track_bpm, or analysis_completed (status text only)
Deliver ==
    /\ ctrl \in {"idle", "closed"}
    /\ events # <<>>
    /\ LET e == Head(events) IN
       bpm_cache' = IF e.kind = "bpm_analyzed"
                      THEN UpdateTrackBpm(bpm_cache, e.file, e.bpm)
                      ELSE bpm_cache
    /\ events' = Tail(events)
    /\ UNCHANGED <<directory, audio_analyzer, track_items,
                   analyzer_thread, thr, nthreads, ctrl, scans>>

\* FileBrowserDialog.get_cached_bpm
GetCachedBpm(cache, file_path) == Get(cache, file_path, 0)

\* line 182: closeEvent has a running job to stop
CloseMustStop(at, T) == at # 0 /\ IsRunning(T)

\* lines 182-183: closeEvent up to the call of wait()
CloseEvent ==
    /\ ctrl = "idle"
    /\ IF CloseMustStop(analyzer_thread,
                        IF analyzer_thread = 0 THEN NoThread
                        ELSE thr[analyzer_thread])
         THEN /\ thr' = [thr EXCEPT ![analyzer_thread] = Stop(@)]
              /\ ctrl' = "closing"
         ELSE /\ ctrl' = "closed"
              /\ UNCHANGED thr
    /\ UNCHANGED <<directory, audio_analyzer, track_items,
                   bpm_cache, analyzer_thread, nthreads, events, scans>>

\* WaitReturns, were closeEvent not to wait for the worker
WaitReturnsAtOnce(T) == TRUE

\* line 184: QThread.wait returns once run() has returned
WaitReturns(T) == ~IsRunning(T)

\* lines 184-185: the rest of closeEvent
CloseWait ==
    /\ ctrl = "closing"
    /\ WaitReturns(thr[analyzer_thread])
    /\ ctrl' = "closed"
    /\ UNCHANGED <<directory, audio_analyzer, track_items,
                   bpm_cache, analyzer_thread, thr, nthreads, events, scans>>

(* --------------------------- specification ---------------------------- *)
\* the fields set by FileBrowserDialog.__init__ (lines 101-107)
Init ==
    /\ directory \in AllDirs \cup {NoDirectory}
    /\ audio_analyzer \in BOOLEAN
    /\ track_items = {}
    /\ bpm_cache = EmptyCache
    /\ analyzer_thread = 0
    /\ thr = [t \in Threads |-> NoThread]
    /\ nthreads = 0
    /\ events = <<>>
    /\ ctrl = "ctor"
    /\ scans = 0

Next ==
    \/ Construct
    \/ \E d \in AllDirs : SetDirectory(d)
    \/ Deliver
    \/ CloseEvent
    \/ CloseWait
    \/ \E t \in Threads : WorkerNext(t)
    \/ \E t \in Threads : WorkerAnalyze(t)
    \/ \E t \in Threads : WorkerFinish(t)

Spec == Init /\ [][Next]_vars

\* one step of the run() of some job
WorkerStep ==
    \E t \in Threads : WorkerNext(t) \/ WorkerAnalyze(t) \/ WorkerFinish(t)

\* worker threads are scheduled and every analyze_file call returns or
\* raises: while some run() has a step to take, a step of a run() is taken
FairSpec == Spec /\ WF_vars(WorkerStep)

(* ------------------------- history of a job --------------------------- *)
Jobs == {t \in Threads : thr[t].pc # "none"}

\* the indexes of the log of T that hold a bpm_analyzed / analysis_completed
BpmAt(T) == {i \in 1..Len(T.log) : T.log[i].kind = "bpm_analyzed"}
CompletedAt(T) == {i \in 1..Len(T.log) : T.log[i].kind = "analysis_completed"}

\* the queue positions analyze_file was called for / bpm_analyzed was emitted for
Called(T) == {T.calls[i].pos : i \in 1..Len(T.calls)}
Notified(T) == {T.log[i].pos : i \in BpmAt(T)}

\* the job ended in the Cancelled state: its loop ended on the running flag
Cancelled(T) == T.seen # 0

(* ------------------------------ claims -------------------------------- *)

\* C1: a job whose worker observed the cancellation before its queue was
\* drained never emits analysis_completed.
C1_NoCompletionAfterCancel ==
    \A t \in Jobs : Cancelled(thr[t]) => CompletedAt(thr[t]) = {}

\* C2: on a job that was not asked to stop, every file name that joined the
\* queue before the loop ran off its end has been passed to analyze_file by
\* the time analysis_completed is emitted, a call that returned a bpm > 0 has
\* its bpm_analyzed emitted, and every bpm_analyzed precedes
\* analysis_completed.
C2_AppendedProcessedBeforeCompleted ==
    \A t \in Jobs :
      LET T == thr[t] IN
      /\ (CompletedAt(T) # {} /\ T.running) =>
            \A i \in 1..Len(T.file_list) : T.live[i] => i \in Called(T)
      /\ (T.last.kind = "bpm" /\ T.last.bpm > 0) =>
            T.calls[Len(T.calls)].pos \in Notified(T)
      /\ \A i \in BpmAt(T) : \A j \in CompletedAt(T) : i < j

\* a job that was not asked to stop has completed, and a file appended to it
\* while it ran was analyzed and notified
C2_Witness ==
    \E t \in Jobs :
      LET T == thr[t] IN
      /\ T.pc = "finished" /\ T.running
      /\ Len(T.file_list) > T.initLen
      /\ T.live[Len(T.file_list)]
      /\ Len(T.file_list) \in Notified(T)

\* C3: the bpm_analyzed signals of a job are emitted in queue order: each is
\* for the file at its queue position, and of two of them the one emitted
\* first is for the earlier position.
C3_NotificationsInQueueOrder ==
    \A t \in Jobs :
      LET T == thr[t] IN
      /\ \A i \in BpmAt(T) :
            /\ T.log[i].pos \in 1..Len(T.file_list)
            /\ T.log[i].file = T.file_list[T.log[i].pos]
      /\ \A i, j \in BpmAt(T) : i < j => T.log[i].pos < T.log[j].pos

\* a job has notified a file of its first submission and then an appended one
C3_Witness ==
    \E t \in Jobs :
      LET T == thr[t] IN
      \E i, j \in BpmAt(T) :
        /\ i < j
        /\ T.log[i].pos <= T.initLen
        /\ T.log[j].pos > T.initLen

\* C4: a job emits analysis_completed at most once; a job that drained its
\* queue without being cancelled and has returned emitted it exactly once;
\* and nothing is emitted after it.
C4_CompletedOnceAndLast ==
    \A t \in Jobs :
      LET T == thr[t] IN
      /\ Cardinality(CompletedAt(T)) <= 1
      /\ (T.pc = "finished" /\ T.exhausted) => Cardinality(CompletedAt(T)) = 1
      /\ \A j \in CompletedAt(T) : j = Len(T.log)

\* a job has drained a queue of two files, notified both and completed
C4_Witness ==
    \E t \in Jobs :
      LET T == thr[t] IN
      /\ T.pc = "finished" /\ T.exhausted /\ T.running
      /\ Cardinality(BpmAt(T)) >= 2
      /\ CompletedAt(T) # {}

\* C5: a job never emits bpm_analyzed twice for the same file name.
C5_NoDuplicateNotification ==
    \A t \in Jobs :
      LET T == thr[t] IN
      \A i, j \in BpmAt(T) : T.log[i].file = T.log[j].file => i = j

\* C6: once the worker has read the cancellation flag as set at the head of
\* an iteration, the loop is over, and neither the file of that iteration nor
\* any later file of the queue is analyzed or notified.
C6_CancelStopsAtFileBoundary ==
    \A t \in Jobs :
      LET T == thr[t] IN
      Cancelled(T) =>
        /\ T.pc \in {"emit_done", "finished"}
        /\ \A p \in Called(T) \cup Notified(T) : p < T.seen

\* a job was cancelled after its first file was analyzed and notified, with
\* files left in the queue
C6_Witness ==
    \E t \in Jobs :
      LET T == thr[t] IN
      /\ T.seen = 2 /\ T.pc = "finished"
      /\ Notified(T) = {1}
      /\ Len(T.file_list) >= 2

\* C7: no job is left running for a directory other than the one the session
\* shows.
C7_NoJobAgainstReplacedListing ==
    \A t \in Jobs : IsRunning(thr[t]) => thr[t].directory = directory

\* C8: while closeEvent waits, cancellation of the session's job has been
\* requested, and once closeEvent has returned no worker of the session is
\* running.
C8_ClosedMeansNoWorker ==
    /\ ctrl = "closing" => analyzer_thread # 0 /\ ~thr[analyzer_thread].running
    /\ ctrl = "closed" => \A t \in Jobs : ~IsRunning(thr[t])

\* closeEvent has stopped a job that was running and has returned
C8_Witness ==
    /\ ctrl = "closed"
    /\ analyzer_thread # 0
    /\ ~thr[analyzer_thread].running

\* C9: at most one BPMAnalyzerThread of the session is running.
C9_AtMostOneRunning ==
    Cardinality({t \in Jobs : IsRunning(thr[t])}) <= 1

\* the session has created a second job after the first one returned
C9_Witness ==
    /\ nthreads >= 2
    /\ IsRunning(thr[2])
    /\ thr[1].pc = "finished"

\* C10: a file whose analyze_file call raised gets no bpm_analyzed, the
\* failure does not end run(): a worker that has returned has emitted
\* analysis_completed, and a worker whose loop ran off the end of the queue
\* has called analyze_file once for every position up to there.
C10_RaiseSkipsOneFile ==
    \A t \in Jobs :
      LET T == thr[t] IN
      /\ T.last.kind = "raise" => T.calls[Len(T.calls)].pos \notin Notified(T)
      /\ Notified(T) \subseteq Called(T)
      /\ \A i, j \in 1..Len(T.calls) : i < j => T.calls[i].pos < T.calls[j].pos
      /\ T.pc = "finished" => CompletedAt(T) # {}
      /\ T.exhausted => Called(T) = 1..Len(T.calls) /\ Len(T.calls) = T.idx

\* analyze_file has just raised for a file, and the worker is back at the
\* head of its loop with a file left in the queue and no cancellation
C10_Witness ==
    \E t \in Jobs :
      LET T == thr[t] IN
      /\ T.last.kind = "raise"
      /\ T.pc = "next"
      /\ T.running
      /\ T.idx < Len(T.file_list)

\* C11: a file for which analyze_file returned a bpm <= 0 gets no
\* bpm_analyzed, so no signal that could write the in-memory cache carries a
\* bpm <= 0; the loop goes on with the next file, a worker whose loop ran off
\* the end of the queue has called analyze_file for every position, and a
\* worker that has returned has emitted analysis_completed.
C11_SentinelSkipsOneFile ==
    /\ \A t \in Jobs :
         LET T == thr[t] IN
         /\ (T.last.kind = "bpm" /\ T.last.bpm <= 0) =>
               /\ T.calls[Len(T.calls)].pos \notin Notified(T)
               /\ T.pc = "next"
         /\ \A i \in BpmAt(T) : T.log[i].bpm > 0
         /\ T.exhausted => Called(T) = 1..T.idx
         /\ T.pc = "finished" => CompletedAt(T) # {}
    /\ \A i \in 1..Len(events) :
         events[i].kind = "bpm_analyzed" => events[i].bpm > 0

\* analyze_file has just returned 0 for a file that has no cache entry, and
\* the worker is back at the head of its loop with a file left in the queue
C11_Witness ==
    \E t \in Jobs :
      LET T == thr[t] IN
      /\ T.last.kind = "bpm" /\ T.last.bpm = 0
      /\ T.pc = "next" /\ T.running
      /\ T.idx < Len(T.file_list)
      /\ T.calls[Len(T.calls)].path \notin DOMAIN bpm_cache

\* C12: when analyze_file returned a bpm > 0 and the beat pre-warm raised,
\* the iteration still emitted bpm_analyzed(file, bpm) and the worker is back
\* at the head of its loop.
C12_PrewarmFailureKeepsBpm ==
    \A t \in Jobs :
      LET T == thr[t] IN
      (T.last.kind = "bpm" /\ T.last.bpm > 0 /\ ~T.last.warm) =>
        LET c == T.calls[Len(T.calls)] IN
        /\ T.log # <<>>
        /\ T.log[Len(T.log)] =
             [kind |-> "bpm_analyzed", t |-> t, pos |-> c.pos,
              file |-> T.file_list[c.pos], bpm |-> T.last.bpm]
        /\ T.pc = "next"

\* the pre-warm has just raised after a bpm > 0, with a file left in the queue
C12_Witness ==
    \E t \in Jobs :
      LET T == thr[t] IN
      /\ T.last.kind = "bpm" /\ T.last.bpm > 0 /\ ~T.last.warm
      /\ T.pc = "next" /\ T.running
      /\ T.idx < Len(T.file_list)

\* C13: every entry of the in-memory cache is strictly greater than 0.
C13_CacheEntriesPositive ==
    \A p \in DOMAIN bpm_cache : bpm_cache[p] > 0

\* C14: for a path whose in-memory entry is a valid bpm, the two-tier lookup
\* of the next scan returns exactly that bpm, whatever the persistent tier
\* answers for the path.
C14_MemoryValueSurvivesLookup ==
    \A p \in DOMAIN bpm_cache :
      bpm_cache[p] > 0 =>
        \A sr \in AnswersFor(p[2]) : LookupBpm(bpm_cache, p, sr) = bpm_cache[p]

\* C14, amended: for a path whose in-memory entry is a valid bpm, the
\* two-tier lookup of the next scan returns exactly that bpm and leaves the
\* entry alone when the persistent tier is unavailable, has no entry for the
\* path or has one without a bpm; when the persistent tier has a number for
\* the path, the lookup returns that number and the entry is replaced by it.
C14_LookupPrefersPersistent ==
    \A p \in DOMAIN bpm_cache :
      bpm_cache[p] > 0 =>
        \A sr \in AnswersFor(p[2]) :
          IF sr.kind = "bpm"
            THEN /\ LookupBpm(bpm_cache, p, sr) = sr.bpm
                 /\ Get(PromoteToMemory(bpm_cache, p, sr), p, 0) = sr.bpm
            ELSE /\ LookupBpm(bpm_cache, p, sr) = bpm_cache[p]
                 /\ PromoteToMemory(bpm_cache, p, sr) = bpm_cache

\* the result of analyzing a of d1 is in the in-memory cache, and a later
\* scan of d1 has started a second job for b alone
C14_Witness ==
    /\ nthreads >= 2
    /\ thr[2].directory = "d1" /\ thr[2].file_list = <<"b">>
    /\ Join("d1", "a") \in DOMAIN bpm_cache
    /\ bpm_cache[Join("d1", "a")] = 120

\* C15: in every state, the scan of a directory gives every listed file for
\* which the persistent tier answers a valid bpm that bpm as its in-memory
\* entry, and does not put the file among the files to analyze.
C15_PersistentHitNotAnalyzed ==
    \A dir \in ValidDirs : \A ret \in StoreAnswers(dir) :
      LET r == ScanFrom(dir, AudioFiles(dir), ret, 1,
                   [cache |-> bpm_cache, todo |-> <<>>, items |-> {}])
      IN \A f \in DOMAIN ret :
           (ret[f].kind = "bpm" /\ ret[f].bpm > 0) =>
             /\ Get(r.cache, Join(dir, f), 0) = ret[f].bpm
             /\ \A i \in 1..Len(r.todo) : r.todo[i] # f

\* the first scan found a of d1 in the persistent tier and started a job for
\* b alone
C15_Witness ==
    /\ scans = 1 /\ nthreads = 1
    /\ thr[1].directory = "d1" /\ thr[1].file_list = <<"b">>
    /\ Join("d1", "a") \in DOMAIN bpm_cache
    /\ bpm_cache[Join("d1", "a")] = 128

\* C16: the delivery of bpm_analyzed(file, bpm) with bpm > 0 for a file of
\* the current listing leaves get_cached_bpm of the file's path, formed from
\* the current directory, returning bpm; the value of an entry changes only
\* by a write for its path, which is such a delivery or a scan of the path's
\* directory, and no entry is removed.
C16_DeliveredBpmIsCached ==
    [][/\ (events # <<>> /\ events' = Tail(events)) =>
            LET e == Head(events) IN
            (/\ e.kind = "bpm_analyzed" /\ e.bpm > 0
             /\ e.file \in track_items /\ directory \in ValidDirs) =>
               GetCachedBpm(bpm_cache', Join(directory, e.file)) = e.bpm
       /\ \A p \in DOMAIN bpm_cache :
            \/ /\ p \in DOMAIN bpm_cache'
               /\ GetCachedBpm(bpm_cache', p) = GetCachedBpm(bpm_cache, p)
            \/ /\ events # <<>> /\ events' = Tail(events)
               /\ Head(events).kind = "bpm_analyzed"
               /\ p = Join(directory, Head(events).file)
            \/ /\ scans' = scans + 1
               /\ p[1] = directory'
      ]_vars

\* every notification is delivered and get_cached_bpm returns the analyzer's
\* bpm for a file of the current listing
C16_Witness ==
    /\ events = <<>>
    /\ directory \in ValidDirs
    /\ \E f \in track_items :
         GetCachedBpm(bpm_cache, Join(directory, f)) = 120

\* C17: a job that was never asked to stop and whose run() has returned has
\* passed every file name of its queue to analyze_file, the names appended by
\* later scans included.
C17_NoWorkLost ==
    \A t \in Jobs :
      LET T == thr[t] IN
      (T.pc = "finished" /\ T.running) => Called(T) = 1..Len(T.file_list)

\* C18: a delivery of bpm_analyzed that changes the in-memory cache changes
\* the entry of the path the job passed to analyze_file for that
\* notification, to the notified bpm, and no other entry.
C18_CacheKeyIsAnalyzedPath ==
    [][(events # <<>> /\ events' = Tail(events) /\ bpm_cache' # bpm_cache) =>
          LET e == Head(events)
              T == thr[e.t]
          IN \E i \in 1..Len(T.calls) :
               /\ T.calls[i].pos = e.pos
               /\ GetCachedBpm(bpm_cache', T.calls[i].path) = e.bpm
               /\ \A p \in DOMAIN bpm_cache' :
                    p # T.calls[i].path =>
                      /\ p \in DOMAIN bpm_cache
                      /\ bpm_cache'[p] = bpm_cache[p]
      ]_vars

\* C19: every analyze_file call of a job is for the path formed from the
\* directory whose listing the file name was taken from and the file name.
C19_AnalyzedUnderListingDirectory ==
    \A t \in Jobs :
      LET T == thr[t] IN
      \A i \in 1..Len(T.calls) :
        T.calls[i].path = Join(T.listed[T.calls[i].pos],
                               T.file_list[T.calls[i].pos])

\* C20: from some point on the run() of every started job has returned; and a worker
\* whose running flag is cleared makes no analyze_file call other than the
\* one of the iteration it is in, after which it is back at the loop head.
C20_WorkerTerminates ==
    /\ <>[](\A t \in Threads : thr[t].pc \in {"none", "finished"})
    /\ [][\A t \in Threads :
            ~thr[t].running =>
              IF thr[t].pc = "analyze"
                THEN \/ thr'[t].calls = thr[t].calls
                     \/ /\ Len(thr'[t].calls) = Len(thr[t].calls) + 1
                        /\ thr'[t].pc = "next"
                ELSE /\ thr'[t].calls = thr[t].calls
                     /\ thr'[t].pc # "analyze"
         ]_vars

\* the run() of a job that was asked to stop has returned with file names
\* left in its queue
C20_Witness ==
    \E t \in Jobs :
      LET T == thr[t] IN
      /\ T.pc = "finished" /\ ~T.running
      /\ Cancelled(T)
      /\ Len(T.calls) < Len(T.file_list)

====
